---- MODULE Spec2Model ----
(***************************************************************************)
(* gred: a search-and-edit round trip.  A scan (grep) prints every line    *)
(* matching one of several patterns, tagged with a CRC-32 of the line; a   *)
(* later patch pass reads the edited output and writes the edited lines    *)
(* back into the files.                                                    *)
(*                                                                         *)
(* Texts (file contents, output lines, patch lines) are sequences of       *)
(* character codes.  A 32-bit word is a pair <<hi, lo>> of 16-bit halves,  *)
(* so that every CRC-32 value keeps its full width.                        *)
(***************************************************************************)
EXTENDS Integers, Sequences, FiniteSets, TLC

(* ------------------------------ bounds --------------------------------- *)
\* longest scanned file, in bytes
MaxLen == 4
\* most patterns given to one scan
MaxPats == 2
\* most lines in one patch stream
MaxStream == 3
\* largest target line number written in a patch stream
MaxLineNo == 2
\* how many times patchInput is called in one process
MaxParses == 2

(* --------------------------- character codes --------------------------- *)
NL == 10
TAB == 9
SP == 32
COLON == 58
NUL == 0
ChA == 97
ChB == 98
\* search.go / part_001: firstSepLeft = U+2553, crcSepLeft = U+2551
firstSepLeft == 9555
crcSepLeft == 9553

(* ------------------------- sequences of bytes -------------------------- *)
\* buf[from:to] of Go, with 0-based half-open offsets
Slice(s, from, to) == SubSeq(s, from + 1, to)

\* bytes.IndexByte(s, c): 0-based offset of the first c, or -1
IndexByte(s, c) ==
  IF \E i \in 1..Len(s) : s[i] = c
    THEN (CHOOSE i \in 1..Len(s) : s[i] = c /\ \A k \in 1..(i-1) : s[k] # c) - 1
    ELSE -1

\* bytes.LastIndexByte(s, c): 0-based offset of the last c, or -1
LastIndexByte(s, c) ==
  IF \E i \in 1..Len(s) : s[i] = c
    THEN (CHOOSE i \in 1..Len(s) : s[i] = c /\ \A k \in (i+1)..Len(s) : s[k] # c) - 1
    ELSE -1

(* --------------------------- 32-bit words ------------------------------ *)
RECURSIVE Xor16(_, _, _)
\* bitwise exclusive or of two numbers of n bits
Xor16(a, b, n) ==
  IF n = 0 THEN 0
  ELSE ((a + b) % 2) + 2 * Xor16(a \div 2, b \div 2, n - 1)

\* exclusive or of two 32-bit words
Xor32(x, y) == << Xor16(x[1], y[1], 16), Xor16(x[2], y[2], 16) >>

\* x >> 1 on a 32-bit word
Shr1(x) == << x[1] \div 2, (x[1] % 2) * 32768 + (x[2] \div 2) >>

\* x >> 8 on a 32-bit word
Shr8(x) == << x[1] \div 256, (x[1] % 256) * 256 + (x[2] \div 256) >>

\* the reflected IEEE polynomial 0xEDB88320 of hash/crc32
IEEEPoly == << 60856, 33568 >>

RECURSIVE CrcBits(_, _)
\* one table entry of hash/crc32: eight shift-and-conditional-xor rounds
CrcBits(x, k) ==
  IF k = 0 THEN x
  ELSE CrcBits(IF x[2] % 2 = 1 THEN Xor32(Shr1(x), IEEEPoly) ELSE Shr1(x), k - 1)

\* the 256-entry table of hash/crc32 (crc32.IEEETable)
IEEETable == [ b \in 0..255 |-> CrcBits(<<0, b>>, 8) ]

RECURSIVE CrcUpdate(_, _, _)
\* crc32 update over the bytes s[i..]
CrcUpdate(crc, s, i) ==
  IF i > Len(s) THEN crc
  ELSE CrcUpdate(Xor32(IEEETable[Xor16(crc[2] % 256, s[i] % 256, 8)], Shr8(crc)), s, i + 1)

\* crc32.Update over the whole of b: initial value and final complement 0xFFFFFFFF
CrcOf(b) ==
  LET c == CrcUpdate(<<65535, 65535>>, b, 1)
  IN  << 65535 - c[1], 65535 - c[2] >>

RECURSIVE TextsUpTo(_, _)
\* every text of at most n bytes over the alphabet
TextsUpTo(alphabet, n) ==
  IF n = 0 THEN { << >> }
  ELSE LET shorter == TextsUpTo(alphabet, n - 1)
       IN  shorter \cup { Append(t, c) : t \in shorter, c \in alphabet }

\* the checksums of the short texts over the file alphabet, computed once
CrcKnown == [ t \in TextsUpTo({ ChA, ChB, NL }, MaxLen) |-> CrcOf(t) ]

\* crc32.ChecksumIEEE(b)
ChecksumIEEE(b) == IF b \in DOMAIN CrcKnown THEN CrcKnown[b] ELSE CrcOf(b)

(* ----------------------------- encodings ------------------------------- *)
\* quotient and remainder of a 32-bit word divided by 85
DivMod85(x) ==
  LET r1 == x[1] % 85
      t  == r1 * 65536 + x[2]
  IN  [ q |-> << x[1] \div 85, t \div 85 >>, r |-> t % 85 ]

RECURSIVE Digits85(_, _)
\* the k least significant base-85 digits of v, most significant first, as '!'+digit
Digits85(v, k) ==
  IF k = 0 THEN << >>
  ELSE LET d == DivMod85(v) IN Append(Digits85(d.q, k - 1), 33 + d.r)

\* encoding/ascii85.Encode of one 4-byte group into a 5-byte dst: a zero group is
\* written as the single byte 'z' and the rest of dst stays zero
Ascii85(v) ==
  IF v = <<0, 0>> THEN << 122, NUL, NUL, NUL, NUL >> ELSE Digits85(v, 5)

\* the tags of the short texts over the file alphabet, computed once
CrcBytesKnown == [ t \in DOMAIN CrcKnown |-> Ascii85(CrcKnown[t]) ]

\* crcBytes(b): the checksum of b, big endian, in ascii85
crcBytes(b) == IF b \in DOMAIN CrcBytesKnown THEN CrcBytesKnown[b] ELSE Ascii85(ChecksumIEEE(b))

RECURSIVE Dec(_)
\* %d of a non-negative number
Dec(n) == IF n < 10 THEN << 48 + n >> ELSE Append(Dec(n \div 10), 48 + (n % 10))

\* the digit set [A-F0-9] of patchPrefixRe
IsHexUpper(c) == (c >= 48 /\ c <= 57) \/ (c >= 65 /\ c <= 70)

\* the digit set [0-9]
IsDigit(c) == c >= 48 /\ c <= 57

\* value of one digit for strconv.ParseUint in base 16 (lower case is accepted by
\* ParseUint, but patchPrefixRe only lets upper case through)
HexVal(c) == IF c <= 57 THEN c - 48 ELSE c - 55

\* strconv.ParseUint(s, 16, 32) on the eight hexadecimal digits the prefix captures
ParseHex32(s) ==
  << ((HexVal(s[1]) * 16 + HexVal(s[2])) * 16 + HexVal(s[3])) * 16 + HexVal(s[4]),
     ((HexVal(s[5]) * 16 + HexVal(s[6])) * 16 + HexVal(s[7])) * 16 + HexVal(s[8]) >>

\* the ten digits of 4294967295, the largest value ParseUint(s, 10, 32) accepts
MaxUint32Dec == << 52, 50, 57, 52, 57, 54, 55, 50, 57, 53 >>

RECURSIVE StripZeros(_)
\* s without its leading '0' digits (at least one digit is kept)
StripZeros(s) == IF Len(s) > 1 /\ s[1] = 48 THEN StripZeros(Tail(s)) ELSE s

\* whether the digit string s exceeds 2^32-1 (ParseUint's "value out of range")
DecOutOfRange(s) ==
  LET t == StripZeros(s)
  IN  \/ Len(t) > 10
      \/ /\ Len(t) = 10
         /\ \E i \in 1..10 : /\ t[i] > MaxUint32Dec[i]
                             /\ \A k \in 1..(i-1) : t[k] = MaxUint32Dec[k]

RECURSIVE DecVal(_)
\* the value of a digit string that is in range
DecVal(s) == IF Len(s) = 0 THEN 0 ELSE DecVal(SubSeq(s, 1, Len(s) - 1)) * 10 + (s[Len(s)] - 48)

(* ------------------------------ patterns ------------------------------- *)
\* The compiled patterns a scan may be given.  "lit" is a literal (its bytes may
\* include a newline, as in the Go pattern a\nb); "star" is c*, which also
\* matches the empty string; "wordend" is (?m)\b$, the empty string at the end
\* of a line whose last byte is a word character; "notwordnl" is \B\n, a
\* newline that does not follow a word character.
Lit(t) == [ kind |-> "lit", lit |-> t ]
Star(c) == [ kind |-> "star", lit |-> << c >> ]
WordEnd == [ kind |-> "wordend", lit |-> << >> ]
NotWordNL == [ kind |-> "notwordnl", lit |-> << NL >> ]

Patterns ==
  { Lit(<<ChA>>), Lit(<<ChA, ChB>>), Lit(<<ChB, NL, ChA>>), Lit(<<NL, NL>>), Star(ChB),
    WordEnd, NotWordNL }

\* whether c is a word character (\w); of the bytes of the files, a and b are
IsWord(c) == c \in { ChA, ChB }

\* whether (?m)\b$ matches in s at 0-based offset i: a word character on the
\* left, and a newline or the end of the text on the right
WordEndAt(s, i) ==
  /\ i > 0 /\ IsWord(s[i])
  /\ i = Len(s) \/ s[i + 1] = NL

\* whether \B\n matches in s at 0-based offset i: a newline there, and no word
\* character on its left
NotWordNLAt(s, i) ==
  /\ i < Len(s) /\ s[i + 1] = NL
  /\ i = 0 \/ ~IsWord(s[i])

\* whether the literal t occurs in s at 0-based offset i
OccursAt(t, s, i) == i + Len(t) <= Len(s) /\ Slice(s, i, i + Len(t)) = t

RECURSIVE RunLen(_, _, _)
\* number of consecutive bytes c in s from 0-based offset i
RunLen(s, i, c) == IF i < Len(s) /\ s[i + 1] = c THEN 1 + RunLen(s, i + 1, c) ELSE 0

\* regexp.FindIndex(buf): the leftmost match, <<start, end>>, or << >> for nil
FindIndex(pat, b) ==
  IF pat.kind = "star"
    THEN << 0, RunLen(b, 0, pat.lit[1]) >>
  ELSE IF pat.kind = "wordend"
    THEN IF \E i \in 0..Len(b) : WordEndAt(b, i)
           THEN LET i == CHOOSE i \in 0..Len(b) :
                           /\ WordEndAt(b, i)
                           /\ \A k \in 0..(i-1) : ~WordEndAt(b, k)
                IN  << i, i >>
           ELSE << >>
  ELSE IF pat.kind = "notwordnl"
    THEN IF \E i \in 0..Len(b) : NotWordNLAt(b, i)
           THEN LET i == CHOOSE i \in 0..Len(b) :
                           /\ NotWordNLAt(b, i)
                           /\ \A k \in 0..(i-1) : ~NotWordNLAt(b, k)
                IN  << i, i + 1 >>
           ELSE << >>
    ELSE IF \E i \in 0..Len(b) : OccursAt(pat.lit, b, i)
           THEN LET i == CHOOSE i \in 0..Len(b) :
                           /\ OccursAt(pat.lit, b, i)
                           /\ \A k \in 0..(i-1) : ~OccursAt(pat.lit, b, k)
                IN  << i, i + Len(pat.lit) >>
           ELSE << >>

(* --------------------------- match cursors ----------------------------- *)
\* a store that takes a cursor out of exhaustion when the search found a match
storeRevive(m, idx) ==
  IF idx = << >> THEN [ m EXCEPT !.fail = TRUE ] ELSE [ fail |-> FALSE, idx |-> idx ]

\* the zero value of type match
ZeroMatch == [ fail |-> FALSE, idx |-> << 0, 0 >> ]

\* (m *match) store(idx)
store(m, idx) ==
  IF idx = << >> THEN [ m EXCEPT !.fail = TRUE ] ELSE [ m EXCEPT !.idx = idx ]

\* (m *match) seek(offset): the cursor after the call and the value returned
seek(m, offset) ==
  IF m.fail THEN [ m |-> m, again |-> FALSE ]
  ELSE LET a == m.idx[1] - offset
           b == m.idx[2] - offset
       IN  [ m |-> [ m EXCEPT !.idx = << a, b >> ], again |-> (a < 0 \/ b < 0) ]

(* ------------------------------ the scan ------------------------------- *)
\* a lineExpand that looks for the end of the line from the start of the match
lineExpandFromStart(i, j, b) ==
  LET x == 1 + LastIndexByte(Slice(b, 0, i), NL)
      y == i + IndexByte(Slice(b, i, Len(b)), NL)
  IN  << x, IF y < i THEN Len(b) ELSE y >>

\* lineExpand(i, j, buf)
lineExpand(i, j, b) ==
  LET x == 1 + LastIndexByte(Slice(b, 0, i), NL)
      y == j + IndexByte(Slice(b, j, Len(b)), NL)
  IN  << x, IF y < j THEN Len(b) ELSE y >>

RECURSIVE countLinesFrom(_, _, _)
\* the loop of countLines, from offset n with lines newlines counted so far
countLinesFrom(b, n, lines) ==
  IF n < Len(b)
    THEN LET i == IndexByte(Slice(b, n, Len(b)), NL)
         IN  IF i < 0 THEN [ n |-> n, lines |-> lines ]
             ELSE countLinesFrom(b, n + i + 1, lines + 1)
    ELSE [ n |-> n, lines |-> lines ]

\* countLines(lineno, buf)
countLines(lineno, b) == countLinesFrom(b, 0, 0)

\* one line of match output: "%c%s\t%s:%d\t%s\n" without the final newline
OutputLine(sepLeft, crc, path, no, line) ==
  << sepLeft >> \o crc \o << TAB >> \o path \o << COLON >> \o Dec(no) \o << TAB >> \o line

RECURSIVE printLinesFrom(_, _, _, _, _, _, _)
\* the loop of printLines, from offset n; printed is what was written so far.
\* Each record keeps the offset in b of the line it was printed for (at).
\* buf[n:i] with i < n is a run-time panic (slice bounds out of range).
printLinesFrom(isFirst, path, lineno, b, n, lines, printed) ==
  IF n < Len(b)
    THEN LET i == IndexByte(Slice(b, n, Len(b)), NL)
         IN  IF i < 0
               THEN LET line == Slice(b, n, Len(b))
                    IN  printLinesFrom(isFirst, path, lineno, b, n + Len(b), lines,
                          Append(printed,
                            [ no |-> lineno + lines, line |-> line, at |-> n,
                              sep |-> IF isFirst THEN firstSepLeft ELSE crcSepLeft ]))
               ELSE IF i < n
                 THEN [ n |-> n, lines |-> lines, printed |-> printed, panic |-> TRUE ]
                 ELSE LET line == Slice(b, n, i)
                      IN  printLinesFrom(isFirst, path, lineno, b, n + i + 1, lines + 1,
                            Append(printed,
                              [ no |-> lineno + lines + 1, line |-> line, at |-> n,
                                sep |-> IF isFirst THEN firstSepLeft ELSE crcSepLeft ]))
    ELSE [ n |-> n, lines |-> lines, printed |-> printed, panic |-> FALSE ]

\* printLines(first, path, lineno, buf)
printLines(isFirst, path, lineno, b) == printLinesFrom(isFirst, path, lineno, b, 0, 0, << >>)

(* ------------------------------- state --------------------------------- *)
VARIABLES
  pc,        \* where the process is: in grep's loop, in patchInput, in patchMode, ...
  pats,      \* s.pats: the compiled patterns of the scan
  buf,       \* grep: the part of the file not consumed yet
  ms,        \* grep: one match cursor per pattern
  lineno,    \* grep: line number of the line at the start of buf
  first,     \* grep: nothing was printed for this file yet
  out,       \* standard output of the scan, one text per printed line
  emitted,   \* the arguments of each Printf of printLines: [no, line, sep], and
             \* the offset in the file of the line printed (at)
  won,       \* the last iteration of grep's loop: the cursors and the buffer it saw,
             \* how many records were printed before it, and its winner
  stdin,     \* patch mode: the lines of standard input not read yet
  input,     \* patch mode: standard input as it was given
  tok,       \* patch mode: scan.Bytes(), the line the scanner stands on
  plineno,   \* patchInput: lineno
  patches,   \* patchInput: patches (empty for a nil slice)
  perr,      \* the error patchInput returned
  seenPath,  \* the package variable seenPath, as the set of its true keys
  pidx,      \* patchMode: index of the patch being applied
  tmp,       \* what was written to the temporary file of the current Apply
  aerr,      \* what the current Apply returned
  applied,   \* every Apply so far: [path, err]
  disk,      \* the files, by path
  disk0,     \* the files as they were when the process started
  driver,    \* which of the two patch loops of gred.go runs: patchMode or runPatch
  edit,      \* the hand edit made to the saved scan output, when stdin is one
  log,       \* what went to standard error and the summaries printed by the patch loop
  codec,     \* a checksum, the tag the scan prints for it, and what the parser reads from the tag
  expand,    \* a call of lineExpand: its arguments and what it returned
  parses     \* how many times patchInput was called in this process

vars == << pc, pats, buf, ms, lineno, first, out, emitted, won, stdin, input, tok,
           plineno, patches, perr, seenPath, pidx, tmp, aerr, applied, disk, disk0,
           driver, edit, log, codec, expand, parses >>

scanVars == << pats, buf, ms, lineno, first, out, emitted, won >>
patchVars == << stdin, input, tok, plineno, patches, perr, seenPath, pidx, tmp, aerr,
                applied, driver, edit, log >>

(* ------------------------------- inputs --------------------------------- *)
PathA == << 65 >>
PathB == << 66 >>
Paths == { PathA, PathB }

\* the files a scan is run on
ScanFiles == TextsUpTo({ ChA, ChB, NL }, MaxLen)

RECURSIVE SeqsUpTo(_, _)
\* every non-empty sequence of at most n elements of S
SeqsUpTo(S, n) ==
  IF n = 0 THEN { }
  ELSE { << x >> : x \in S } \cup { Append(q, x) : q \in SeqsUpTo(S, n - 1), x \in S }

NoErr == [ Wrapped |-> "nil" ]
NoWin == [ j |-> -1, ms |-> << >>, buf |-> << >>, nrec |-> 0 ]
NoEdit == [ k |-> -1, content |-> << >> ]

\* no fingerprint is being converted
NoCodec == [ x |-> << >>, tag |-> << >>, dec |-> << >> ]

\* lineExpand is not being called on its own
NoExpand == [ buf |-> << >>, i |-> 0, j |-> 0, ret |-> << >> ]

\* the patch side of a process that runs a scan
PatchIdle ==
  /\ stdin = << >> /\ input = << >> /\ tok = << >> /\ plineno = 1
  /\ patches = << >> /\ perr = NoErr /\ seenPath = { } /\ pidx = 1
  /\ tmp = << >> /\ aerr = NoErr /\ applied = << >> /\ log = << >>
  /\ driver = "" /\ edit = NoEdit
  /\ codec = NoCodec /\ expand = NoExpand /\ parses = 0

\* grep up to its loop: the file is read and every pattern is primed
GrepEnter(file, ps) ==
  /\ pats = ps
  /\ buf = file
  /\ ms = [ i \in 1..Len(ps) |-> store(ZeroMatch, FindIndex(ps[i], file)) ]
  /\ lineno = 1
  /\ first = TRUE
  /\ out = << >>
  /\ emitted = << >>
  /\ won = NoWin

(* ------------------------------ grep's loop ----------------------------- *)
RECURSIVE WinnerFrom(_, _, _, _, _)
\* the selection loop of grep from pattern i (0-based), with j, min, max so far
WinnerFrom(cs, i, j, min, max) ==
  IF i >= Len(cs) THEN j
  ELSE LET m == cs[i + 1]
       IN  IF m.fail THEN WinnerFrom(cs, i + 1, j, min, max)
           ELSE IF j < 0 \/ m.idx[1] < min
                  THEN WinnerFrom(cs, i + 1, i, m.idx[1], m.idx[2])
                ELSE IF m.idx[1] = min /\ m.idx[2] > max
                  THEN WinnerFrom(cs, i + 1, i, min, m.idx[2])
                ELSE WinnerFrom(cs, i + 1, j, min, max)

RECURSIVE WinnerByStartFrom(_, _, _, _)
\* a selection loop that compares the starts only
WinnerByStartFrom(cs, i, j, min) ==
  IF i >= Len(cs) THEN j
  ELSE LET m == cs[i + 1]
       IN  IF m.fail THEN WinnerByStartFrom(cs, i + 1, j, min)
           ELSE IF j < 0 \/ m.idx[1] < min
                  THEN WinnerByStartFrom(cs, i + 1, i, m.idx[1])
                ELSE WinnerByStartFrom(cs, i + 1, j, min)

\* the selection without the preference for the longer of two matches that
\* start together
WinnerByStart(cs) == WinnerByStartFrom(cs, 0, -1, 0)

\* the 0-based index of the cursor grep selects, -1 when every cursor failed
Winner(cs) == WinnerFrom(cs, 0, -1, 0, 0)

\* the resynchronisation loop of grep: j is the variable j of the code at that
\* point, which lineExpand's result has overwritten with the line's start offset
Resync(cs, ps, j, k, rest) ==
  [ i \in 1..Len(cs) |->
      IF i - 1 = j
        THEN store(cs[i], FindIndex(ps[i], rest))
        ELSE LET s == seek(cs[i], k)
             IN  IF s.again THEN store(s.m, FindIndex(ps[i], rest)) ELSE s.m ]

\* what one iteration of grep's loop with winner w does: e is what lineExpand
\* returned, c what countLines returned and pl what printLines returned
GrepIteration(w) ==
  \E e \in { lineExpand(ms[w + 1].idx[1], ms[w + 1].idx[2], buf) } :
  \E c \in { countLines(lineno, Slice(buf, 0, e[1])) } :
  \E pl \in { printLines(first, PathA, lineno + c.lines, Slice(buf, c.n, e[2])) } :
  LET j  == e[1]
      k  == e[2]
  IN  /\ won' = [ j |-> w, ms |-> ms, buf |-> buf, nrec |-> Len(emitted) ]
      /\ emitted' = emitted \o [ i \in 1..Len(pl.printed) |->
                       [ pl.printed[i] EXCEPT !.at = @ + c.n + (Len(disk[PathA]) - Len(buf)) ] ]
      /\ out' = out \o [ i \in 1..Len(pl.printed) |->
                   OutputLine(pl.printed[i].sep, crcBytes(pl.printed[i].line), PathA,
                              pl.printed[i].no, pl.printed[i].line) ]
      /\ IF pl.panic
           THEN /\ pc' = "panic"
                /\ UNCHANGED << buf, ms, lineno, first >>
           ELSE /\ pc' = "grep"
                /\ first' = FALSE
                /\ lineno' = lineno + c.lines + pl.lines
                /\ buf' = Slice(buf, k, Len(buf))
                /\ ms' = Resync(ms, pats, j, k, Slice(buf, k, Len(buf)))

\* one iteration of grep's loop that found a winner
GrepStep ==
  /\ pc = "grep"
  /\ Winner(ms) >= 0
  /\ GrepIteration(Winner(ms))
  /\ UNCHANGED << pats, disk, disk0 >>
  /\ UNCHANGED patchVars
  /\ UNCHANGED << codec, expand, parses >>

\* the iteration in which nothing matched: grep returns
GrepBreak ==
  /\ pc = "grep"
  /\ Winner(ms) < 0
  /\ pc' = "grepdone"
  /\ won' = [ j |-> -1, ms |-> ms, buf |-> buf, nrec |-> Len(emitted) ]
  /\ UNCHANGED << pats, buf, ms, lineno, first, out, emitted, disk, disk0 >>
  /\ UNCHANGED patchVars
  /\ UNCHANGED << codec, expand, parses >>

InitScan ==
  /\ pc = "grep"
  /\ \E file \in ScanFiles, ps \in SeqsUpTo(Patterns, MaxPats) :
       /\ GrepEnter(file, ps)
       /\ disk = [ p \in Paths |-> IF p = PathA THEN file ELSE << >> ]
  /\ disk0 = disk
  /\ PatchIdle

NextScan == GrepStep \/ GrepBreak

SpecScan == InitScan /\ [][NextScan]_vars

\* The scan runs in a single process that nothing suspends: as long as an
\* iteration of grep's loop changes the state, one is taken.
SpecScanLive == InitScan /\ [][NextScan]_vars /\ WF_vars(NextScan)

(* --------------------------- the patch parser --------------------------- *)
RECURSIVE NotColonEnd(_, _)
\* where the greedy [^:]+ stops: offset of the first ':' of s from 0-based offset i
NotColonEnd(s, i) == IF i < Len(s) /\ s[i + 1] # COLON THEN NotColonEnd(s, i + 1) ELSE i

RECURSIVE DigitsEnd(_, _)
\* where the greedy [0-9]+ stops: offset of the first non-digit of s from offset i
DigitsEnd(s, i) == IF i < Len(s) /\ IsDigit(s[i + 1]) THEN DigitsEnd(s, i + 1) ELSE i

\* patchPrefixRe.FindSubmatch(line), for "^.([A-F0-9]{8}). ([^:]+):([0-9]+)\t":
\* << >> for nil, else the whole match m0 and the three groups
FindSubmatch(line) ==
  LET pathStart == 11
      pathEnd   == NotColonEnd(line, pathStart)
      noStart   == pathEnd + 1
      noEnd     == DigitsEnd(line, noStart)
  IN  IF /\ Len(line) >= 11
         /\ line[1] # NL
         /\ \A i \in 2..9 : IsHexUpper(line[i])
         /\ line[10] # NL
         /\ line[11] = SP
         /\ pathEnd > pathStart
         /\ pathEnd < Len(line) /\ line[pathEnd + 1] = COLON
         /\ noEnd > noStart
         /\ noEnd < Len(line) /\ line[noEnd + 1] = TAB
        THEN [ m0   |-> Slice(line, 0, noEnd + 1),
               crc  |-> Slice(line, 1, 9),
               path |-> Slice(line, pathStart, pathEnd),
               no   |-> Slice(line, noStart, noEnd) ]
        ELSE << >>

\* a nil pointer
Nil == [ nil |-> TRUE ]

\* newPatchLine without the early return for a line whose content still has the
\* claimed checksum
newPatchLineKeepAll(crc, no, line) ==
  IF DecOutOfRange(no) THEN [ ln |-> Nil, err |-> "ParseUint: value out of range" ]
  ELSE [ ln |-> [ n |-> DecVal(no), b |-> line, crc |-> ParseHex32(crc) ], err |-> "nil" ]

\* newPatchLine(crc, lineno, line): [ln, err], ln = Nil for a nil *patchLine
newPatchLine(crc, no, line) ==
  LET oldCrc == ParseHex32(crc)
      newCrc == ChecksumIEEE(line)
  IN  IF oldCrc = newCrc THEN [ ln |-> Nil, err |-> "nil" ]
      ELSE IF DecOutOfRange(no) THEN [ ln |-> Nil, err |-> "ParseUint: value out of range" ]
      ELSE [ ln |-> [ n |-> DecVal(no), b |-> line, crc |-> oldCrc ], err |-> "nil" ]

\* newPatchError(lineIdx, line, err)
newPatchError(lineIdx, line, err) == [ LineNo |-> lineIdx + 1, Line |-> line, Wrapped |-> err ]

\* an error whose line number stays the position within the group
StartsFromGroup(e, start) == e

\* (e *patchError) StartsFrom(start)
StartsFrom(e, start) == [ e EXCEPT !.LineNo = e.LineNo + start - 1 ]

RECURSIVE InsertByN(_, _)
\* ln put into the sorted sequence q after every line whose n is not larger
InsertByN(q, ln) ==
  IF q = << >> THEN << ln >>
  ELSE IF q[Len(q)].n <= ln.n THEN Append(q, ln)
  ELSE Append(InsertByN(SubSeq(q, 1, Len(q) - 1), ln), q[Len(q)])

RECURSIVE SortByN(_)
\* sort.Slice(p.lines, by n): below 12 elements Go sorts by insertion, which keeps
\* the order of lines with equal n
SortByN(q) == IF q = << >> THEN << >> ELSE InsertByN(SortByN(SubSeq(q, 1, Len(q) - 1)), q[Len(q)])

\* the end of nextPatch without the sort of the lines
nextPatchReturnUnsorted(n, path, lines, eof, t, rest, seen) ==
  [ n |-> n,
    p |-> IF lines = << >> THEN [ nil |-> TRUE ] ELSE [ path |-> path, lines |-> lines ],
    err |-> IF eof THEN [ Wrapped |-> "EOF" ] ELSE [ Wrapped |-> "nil" ],
    tok |-> t, stdin |-> rest, seen |-> seen ]

\* the end of nextPatch without the reset of a patch that holds no line
nextPatchReturnEmpty(n, path, lines, eof, t, rest, seen) ==
  [ n |-> n,
    p |-> [ path |-> path, lines |-> SortByN(lines) ],
    err |-> IF eof THEN [ Wrapped |-> "EOF" ] ELSE [ Wrapped |-> "nil" ],
    tok |-> t, stdin |-> rest, seen |-> seen ]

\* the end of nextPatch, after its loop
nextPatchReturn(n, path, lines, eof, t, rest, seen) ==
  [ n |-> n,
    p |-> IF lines = << >> THEN Nil ELSE [ path |-> path, lines |-> SortByN(lines) ],
    err |-> IF eof THEN [ Wrapped |-> "EOF" ] ELSE NoErr,
    tok |-> t, stdin |-> rest, seen |-> seen ]

RECURSIVE nextPatchLoop(_, _, _, _, _, _)
\* the loop of nextPatch: n lines of the group of path were read so far
nextPatchLoop(n, path, lines, t, rest, seen) ==
  IF rest = << >>
    THEN nextPatchReturn(n, path, lines, TRUE, t, rest, seen)
    ELSE LET line == Head(rest)
             m    == FindSubmatch(line)
         IN  IF m = << >>
               THEN [ n |-> n, p |-> [ path |-> path, lines |-> lines ],
                      err |-> newPatchError(n, line, "BadPatchPrefix"),
                      tok |-> line, stdin |-> Tail(rest), seen |-> seen ]
             ELSE IF path # m.path
               THEN nextPatchReturn(n, path, lines, FALSE, line, Tail(rest), seen)
             ELSE LET r == newPatchLine(m.crc, m.no, Slice(line, Len(m.m0), Len(line)))
                  IN  IF r.err # "nil"
                        THEN [ n |-> n, p |-> [ path |-> path, lines |-> lines ],
                               err |-> newPatchError(n, m.m0, r.err),
                               tok |-> line, stdin |-> Tail(rest), seen |-> seen ]
                        ELSE nextPatchLoop(n + 1, path,
                               IF r.ln # Nil THEN Append(lines, r.ln) ELSE lines,
                               line, Tail(rest), seen)

\* nextPatch that opens the group without the line it stands on
nextPatchDropFirst(t, rest, seen) ==
  LET m == FindSubmatch(t)
  IN  IF m = << >>
        THEN [ n |-> 0, p |-> Nil, err |-> newPatchError(0, t, "BadPatchPrefix"),
               tok |-> t, stdin |-> rest, seen |-> seen ]
      ELSE LET r == newPatchLine(m.crc, m.no, Slice(t, Len(m.m0), Len(t)))
           IN  IF r.err # "nil"
                 THEN [ n |-> 0, p |-> Nil, err |-> newPatchError(0, m.m0, r.err),
                        tok |-> t, stdin |-> rest, seen |-> seen ]
               ELSE IF m.path \in seen
                 THEN [ n |-> 0, p |-> Nil, err |-> newPatchError(0, m.m0, "DupPathGroup"),
                        tok |-> t, stdin |-> rest, seen |-> seen ]
               ELSE nextPatchLoop(1, m.path, << >>, t, rest, seen \cup { m.path })

\* nextPatch without the look-up of the path in seenPath
nextPatchAnyPath(t, rest, seen) ==
  LET m == FindSubmatch(t)
  IN  IF m = << >>
        THEN [ n |-> 0, p |-> Nil, err |-> newPatchError(0, t, "BadPatchPrefix"),
               tok |-> t, stdin |-> rest, seen |-> seen ]
      ELSE LET r == newPatchLine(m.crc, m.no, Slice(t, Len(m.m0), Len(t)))
           IN  IF r.err # "nil"
                 THEN [ n |-> 0, p |-> Nil, err |-> newPatchError(0, m.m0, r.err),
                        tok |-> t, stdin |-> rest, seen |-> seen ]
               ELSE nextPatchLoop(1, m.path, IF r.ln # Nil THEN << r.ln >> ELSE << >>,
                                  t, rest, seen \cup { m.path })

\* nextPatch(scan): t is the line the scanner stands on, rest the lines after it,
\* seen the package variable seenPath
nextPatch(t, rest, seen) ==
  LET m == FindSubmatch(t)
  IN  IF m = << >>
        THEN [ n |-> 0, p |-> Nil, err |-> newPatchError(0, t, "BadPatchPrefix"),
               tok |-> t, stdin |-> rest, seen |-> seen ]
      ELSE LET r == newPatchLine(m.crc, m.no, Slice(t, Len(m.m0), Len(t)))
           IN  IF r.err # "nil"
                 THEN [ n |-> 0, p |-> Nil, err |-> newPatchError(0, m.m0, r.err),
                        tok |-> t, stdin |-> rest, seen |-> seen ]
               ELSE IF m.path \in seen
                 THEN [ n |-> 0, p |-> Nil, err |-> newPatchError(0, m.m0, "DupPathGroup"),
                        tok |-> t, stdin |-> rest, seen |-> seen ]
               ELSE nextPatchLoop(1, m.path, IF r.ln # Nil THEN << r.ln >> ELSE << >>,
                                  t, rest, seen \cup { m.path })

(* --------------------------- the patch applier -------------------------- *)
\* (b *bufio.Reader) ReadBytes('\n') on the unread bytes r: the bytes up to and
\* including the first newline, or everything that is left and io.EOF
ReadBytes(r) ==
  LET i == IndexByte(r, NL)
  IN  IF i < 0 THEN [ line |-> r, rest |-> << >>, err |-> "EOF" ]
      ELSE [ line |-> Slice(r, 0, i + 1), rest |-> Slice(r, i + 1, Len(r)), err |-> "nil" ]

\* Check without the comparison of the checksums
CheckLineOnly(ln, r) ==
  LET rb == ReadBytes(r)
  IN  IF rb.err = "EOF" THEN [ err |-> "UnexpectedEOF", rest |-> rb.rest ]
      ELSE [ err |-> "nil", rest |-> rb.rest ]

\* (ln patchLine) Check(rdr): the error returned and what is left to read
Check(ln, r) ==
  LET rb == ReadBytes(r)
  IN  IF rb.err = "EOF" THEN [ err |-> "UnexpectedEOF", rest |-> rb.rest ]
      ELSE IF ChecksumIEEE(rb.line) # ln.crc THEN [ err |-> "BadCRC", rest |-> rb.rest ]
      ELSE [ err |-> "nil", rest |-> rb.rest ]

RECURSIVE ApplyCopy(_, _, _, _)
\* the inner loop of Apply, "for ln.n < lineno": r is unread, w is written so far
ApplyCopy(ln, r, no, w) ==
  IF ln.n < no
    THEN LET rb == ReadBytes(r)
         IN  IF rb.err # "nil" THEN [ err |-> rb.err, rest |-> rb.rest, no |-> no, w |-> w ]
             ELSE IF rb.rest = << >>
               \* buf.Discard(1) with nothing left to discard
               THEN [ err |-> "EOF", rest |-> << >>, no |-> no, w |-> w ]
             ELSE ApplyCopy(ln, Tail(rb.rest), no + 1, w \o rb.line \o << NL >>)
    ELSE [ err |-> "nil", rest |-> r, no |-> no, w |-> w ]

RECURSIVE ApplyFrom(_, _, _, _, _)
\* the outer loop of Apply from the k-th line of the patch
ApplyFrom(lines, k, r, no, w) ==
  IF k > Len(lines)
    \* buf.WriteTo(wtr)
    THEN [ err |-> "nil", out |-> w \o r ]
    ELSE LET c == ApplyCopy(lines[k], r, no, w)
         IN  IF c.err # "nil" THEN [ err |-> c.err, out |-> c.w ]
             ELSE LET ck == Check(lines[k], c.rest)
                  IN  IF ck.err # "nil" THEN [ err |-> ck.err, out |-> c.w ]
                      ELSE ApplyFrom(lines, k + 1, ck.rest, c.no, c.w \o lines[k].b)

\* (p patch) Apply(rdr, wtr): the error returned and everything written to wtr
Apply(lines, content) == ApplyFrom(lines, 1, content, 1, << >>)

(* ---------------------------- patch streams ----------------------------- *)
\* one upper-case hexadecimal digit
HexDigit(d) == IF d < 10 THEN 48 + d ELSE 55 + d

\* a 32-bit word as eight upper-case hexadecimal digits
Hex8(v) ==
  << HexDigit(v[1] \div 4096), HexDigit((v[1] \div 256) % 16),
     HexDigit((v[1] \div 16) % 16), HexDigit(v[1] % 16),
     HexDigit(v[2] \div 4096), HexDigit((v[2] \div 256) % 16),
     HexDigit((v[2] \div 16) % 16), HexDigit(v[2] % 16) >>

\* a line of patch input in the form patchPrefixRe accepts
PatchLineText(crc, path, no, content) ==
  << crcSepLeft >> \o Hex8(crc) \o << crcSepLeft, SP >> \o path \o << COLON >> \o no
    \o << TAB >> \o content

\* "4294967296": a line number one above what ParseUint(s, 10, 32) accepts
OverRangeNo == << 52, 50, 57, 52, 57, 54, 55, 50, 57, 54 >>

\* The lines a patch stream is made of.  The checksum the applier compares with
\* is taken over the target line with its newline, so a stream that is to pass
\* Check carries that value; a stream saved from a scan carries the checksum of
\* the line without it.  The last three lines are: a line as the scan prints
\* it, a line whose number is out of range, and an edit of the line after the
\* largest line number the other edits name.
StreamLines ==
  UNION { { PatchLineText(ChecksumIEEE(<<ChA>>), p, Dec(1), <<ChA>>),
            PatchLineText(ChecksumIEEE(<<ChA>>), p, Dec(1), <<ChB>>) }
          \cup { PatchLineText(ChecksumIEEE(<<ChA, NL>>), p, Dec(n), <<ChB>>) :
                   n \in 0..MaxLineNo }
          : p \in Paths }
  \cup { OutputLine(firstSepLeft, crcBytes(<<ChA>>), PathA, 1, <<ChA>>),
         PatchLineText(ChecksumIEEE(<<ChA>>), PathA, OverRangeNo, <<ChB>>),
         PatchLineText(ChecksumIEEE(<<ChA, NL>>), PathA, Dec(MaxLineNo + 1), <<ChB>>) }

\* the patch streams: every sequence of at most MaxStream such lines
Streams == { << >> } \cup SeqsUpTo(StreamLines, MaxStream)

\* the contents of the file patched at path A: two lines, the last one without
\* its newline (the file at path B has two full lines)
PatchFiles == { <<ChA, NL, ChB>> }

\* the scan side of a process that runs in patch mode
ScanIdle ==
  /\ pats = << >> /\ buf = << >> /\ ms = << >> /\ lineno = 1 /\ first = TRUE
  /\ out = << >> /\ emitted = << >> /\ won = NoWin

(* ------------------------------ patch mode ------------------------------ *)
\* patchInput up to its loop: the first scan.Scan()
PatchInputBegin ==
  /\ pc = "patchInput"
  /\ IF stdin = << >>
       THEN /\ pc' = "main"
            /\ UNCHANGED << stdin, tok >>
       ELSE /\ pc' = "parse"
            /\ tok' = Head(stdin)
            /\ stdin' = Tail(stdin)
  /\ UNCHANGED << input, plineno, patches, perr, seenPath, pidx, tmp, aerr, applied,
                  driver, edit, log, disk, disk0 >>
  /\ UNCHANGED scanVars
  /\ UNCHANGED << codec, expand, parses >>

\* one iteration of patchInput's loop: a call of nextPatch and what is done with
\* its results
PatchInputNext ==
  /\ pc = "parse"
  /\ LET r == nextPatch(tok, stdin, seenPath)
     IN  /\ tok' = r.tok
         /\ stdin' = r.stdin
         /\ seenPath' = r.seen
         /\ IF r.err.Wrapped \notin { "nil", "EOF" }
              THEN /\ perr' = StartsFrom(r.err, plineno)
                   /\ patches' = << >>
                   /\ pc' = "main"
                   /\ UNCHANGED plineno
              ELSE /\ plineno' = plineno + r.n
                   /\ patches' = IF r.p # Nil THEN Append(patches, r.p) ELSE patches
                   /\ pc' = IF r.err.Wrapped = "EOF" THEN "main" ELSE "parse"
                   /\ UNCHANGED perr
  /\ UNCHANGED << input, pidx, tmp, aerr, applied, driver, edit, log, disk, disk0 >>
  /\ UNCHANGED scanVars
  /\ UNCHANGED << codec, expand, parses >>

\* what both versions of main do with the results of patchInput
MainDispatch(loop) ==
  /\ pc = "main"
  /\ driver' = loop
  /\ IF perr # NoErr
       THEN /\ log' = Append(log, "die")
            /\ pc' = "exit1"
       ELSE IF patches = << >>
         THEN /\ log' = Append(log, "warning: no changes")
              /\ pc' = "exit0"
         ELSE /\ log' = log
              /\ pc' = "loop"
  /\ pidx' = 1
  /\ UNCHANGED << stdin, input, tok, plineno, patches, perr, seenPath, tmp, aerr,
                  applied, edit, disk, disk0 >>
  /\ UNCHANGED scanVars
  /\ UNCHANGED << codec, expand, parses >>

\* main with the -p flag, which hands the patches to patchMode
MainPatchMode == MainDispatch("patchMode")

\* main without arguments, which hands the patches to runPatch
MainRunPatch == MainDispatch("runPatch")

\* p.Apply(): the original is opened for reading and a temporary file is created
\* next to it; either may fail
ApplyOpen ==
  /\ pc = "loop"
  /\ pidx <= Len(patches)
  /\ \E ok \in BOOLEAN :
       IF ok
         THEN /\ pc' = "applying"
              /\ tmp' = << >>
              /\ UNCHANGED << aerr, applied >>
         ELSE /\ pc' = "returned"
              /\ aerr' = [ Wrapped |-> "io" ]
              /\ applied' = Append(applied, [ path |-> patches[pidx].path, err |-> "io" ])
              /\ UNCHANGED tmp
  /\ UNCHANGED << stdin, input, tok, plineno, patches, perr, seenPath, pidx, driver,
                  edit, log, disk, disk0 >>
  /\ UNCHANGED scanVars
  /\ UNCHANGED << codec, expand, parses >>

\* p.Apply(): the original is streamed through Apply(rdr, wtr) into the temporary file
ApplyBody ==
  /\ pc = "applying"
  /\ LET r == Apply(patches[pidx].lines, disk[patches[pidx].path])
     IN  /\ tmp' = r.out
         /\ aerr' = [ Wrapped |-> r.err ]
  /\ pc' = "written"
  /\ UNCHANGED << stdin, input, tok, plineno, patches, perr, seenPath, pidx, applied,
                  driver, edit, log, disk, disk0 >>
  /\ UNCHANGED scanVars
  /\ UNCHANGED << codec, expand, parses >>

\* p.Apply(): on success the temporary file is renamed over the original, on
\* failure it is deleted
ApplyClose ==
  /\ pc = "written"
  /\ disk' = IF aerr = NoErr THEN [ disk EXCEPT ![patches[pidx].path] = tmp ] ELSE disk
  /\ tmp' = << >>
  /\ applied' = Append(applied, [ path |-> patches[pidx].path, err |-> aerr.Wrapped ])
  /\ pc' = "returned"
  /\ UNCHANGED << stdin, input, tok, plineno, patches, perr, seenPath, pidx, aerr,
                  driver, edit, log, disk0 >>
  /\ UNCHANGED scanVars
  /\ UNCHANGED << codec, expand, parses >>

\* the body of patchMode's loop after p.Apply() returned: warn and continue, or
\* print the summary
PatchModeNext ==
  /\ pc = "returned"
  /\ driver = "patchMode"
  /\ log' = Append(log, IF aerr # NoErr THEN "warning: apply" ELSE "summary")
  /\ pidx' = pidx + 1
  /\ aerr' = NoErr
  /\ pc' = "loop"
  /\ UNCHANGED << stdin, input, tok, plineno, patches, perr, seenPath, tmp, applied,
                  driver, edit, disk, disk0 >>
  /\ UNCHANGED scanVars
  /\ UNCHANGED << codec, expand, parses >>

\* the body of runPatch's loop after p.Apply() returned: die, or print the summary
RunPatchNext ==
  /\ pc = "returned"
  /\ driver = "runPatch"
  /\ IF aerr # NoErr
       THEN /\ log' = Append(log, "die")
            /\ pc' = "exit1"
            /\ UNCHANGED << pidx, aerr >>
       ELSE /\ log' = Append(log, "summary")
            /\ pidx' = pidx + 1
            /\ aerr' = NoErr
            /\ pc' = "loop"
  /\ UNCHANGED << stdin, input, tok, plineno, patches, perr, seenPath, tmp, applied,
                  driver, edit, disk, disk0 >>
  /\ UNCHANGED scanVars
  /\ UNCHANGED << codec, expand, parses >>

\* the patch loop has gone through every patch
PatchLoopDone ==
  /\ pc = "loop"
  /\ pidx > Len(patches)
  /\ pc' = "exit0"
  /\ UNCHANGED << disk, disk0 >>
  /\ UNCHANGED patchVars
  /\ UNCHANGED scanVars
  /\ UNCHANGED << codec, expand, parses >>

InitPatch ==
  /\ pc = "patchInput"
  /\ input \in Streams
  /\ stdin = input
  /\ tok = << >> /\ plineno = 1 /\ patches = << >> /\ perr = NoErr /\ seenPath = { }
  /\ pidx = 1 /\ tmp = << >> /\ aerr = NoErr /\ applied = << >> /\ log = << >>
  /\ driver = "" /\ edit = NoEdit /\ codec = NoCodec /\ expand = NoExpand /\ parses = 1
  /\ \E f \in PatchFiles :
       disk = [ p \in Paths |-> IF p = PathA THEN f ELSE <<ChA, NL, ChA, NL>> ]
  /\ disk0 = disk
  /\ ScanIdle

NextPatch ==
  \/ PatchInputBegin \/ PatchInputNext \/ MainPatchMode \/ MainRunPatch
  \/ ApplyOpen \/ ApplyBody \/ ApplyClose \/ PatchModeNext \/ RunPatchNext
  \/ PatchLoopDone

SpecPatch == InitPatch /\ [][NextPatch]_vars

(* ------------------------------ round trip ------------------------------ *)
\* what replaces the content of an edited record
EditContents == { <<ChB>>, <<ChA, ChA>> }

\* The output of a finished scan is saved, at most one of its records gets a new
\* content (its fingerprint field is left as printed), and the result is the
\* standard input of a patch run.
SaveOutput ==
  /\ pc = "grepdone"
  /\ \E k \in 0..Len(out), c \in EditContents :
       /\ k = 0 => c = <<ChB>>
       /\ k > 0 => c # emitted[k].line
       /\ edit' = [ k |-> k, content |-> IF k = 0 THEN << >> ELSE c ]
       /\ input' = [ i \in 1..Len(out) |->
                       IF i = k
                         THEN OutputLine(emitted[i].sep, crcBytes(emitted[i].line), PathA,
                                         emitted[i].no, c)
                         ELSE out[i] ]
  /\ stdin' = input'
  /\ pc' = "patchInput"
  /\ UNCHANGED << tok, plineno, patches, perr, seenPath, pidx, tmp, aerr, applied,
                  driver, log, disk, disk0 >>
  /\ UNCHANGED scanVars
  /\ UNCHANGED << codec, expand, parses >>

Init == InitScan \/ InitPatch

Next == NextScan \/ SaveOutput \/ NextPatch

Spec == Init /\ [][Next]_vars

(* ------------------------ a parse after a parse ------------------------- *)
\* The lines of the streams parsed in a process that calls patchInput more than
\* once: a changed line of each path and an unchanged line of path A.
ReparseLines ==
  { PatchLineText(ChecksumIEEE(<<ChA>>), p, Dec(1), <<ChB>>) : p \in Paths }
  \cup { PatchLineText(ChecksumIEEE(<<ChA>>), PathA, Dec(1), <<ChA>>) }

ReparseStreams == { << >> } \cup SeqsUpTo(ReparseLines, MaxStream)

\* patchInput has returned and is called once more in the same process, on a
\* new standard input.  Its locals start afresh (scan, patches, lineno, err);
\* the package variable seenPath is not touched.
PatchInputAgain ==
  /\ pc = "main"
  /\ parses < MaxParses
  /\ input' \in ReparseStreams
  /\ stdin' = input'
  /\ tok' = << >> /\ plineno' = 1 /\ patches' = << >> /\ perr' = NoErr
  /\ parses' = parses + 1
  /\ pc' = "patchInput"
  /\ UNCHANGED << seenPath, pidx, tmp, aerr, applied, driver, edit, log, disk, disk0 >>
  /\ UNCHANGED scanVars
  /\ UNCHANGED << codec, expand >>

InitReparse == InitPatch /\ input \in ReparseStreams

NextReparse == PatchInputBegin \/ PatchInputNext \/ PatchInputAgain

SpecReparse == InitReparse /\ [][NextReparse]_vars

(* -------------------------- fingerprint codec --------------------------- *)
\* What the patch parser reads from a fingerprint tag: patchPrefixRe lets a tag
\* through only when it is eight digits of [A-F0-9], and newPatchLine then
\* converts it with ParseUint(crc, 16, 32); any other tag makes the line one
\* without the patch prefix.
DecodeTag(tag) ==
  IF Len(tag) = 8 /\ \A i \in 1..8 : IsHexUpper(tag[i])
    THEN [ err |-> "nil", v |-> ParseHex32(tag) ]
    ELSE [ err |-> "BadPatchPrefix", v |-> << >> ]

\* the checksums converted: those of the short texts, and the ends of the range
CodecValues ==
  { CrcKnown[t] : t \in DOMAIN CrcKnown } \cup { << 0, 0 >>, << 0, 1 >>, << 65535, 65535 >> }

\* the scan prints the tag of a checksum
CodecEncode ==
  /\ pc = "encode"
  /\ codec' = [ codec EXCEPT !.tag = Ascii85(codec.x) ]
  /\ pc' = "decode"
  /\ UNCHANGED << disk, disk0, expand, parses >>
  /\ UNCHANGED scanVars
  /\ UNCHANGED patchVars

\* the patch parser reads the tag
CodecDecode ==
  /\ pc = "decode"
  /\ codec' = [ codec EXCEPT !.dec = DecodeTag(codec.tag) ]
  /\ pc' = "decoded"
  /\ UNCHANGED << disk, disk0, expand, parses >>
  /\ UNCHANGED scanVars
  /\ UNCHANGED patchVars

InitCodec ==
  /\ pc = "encode"
  /\ \E x \in CodecValues : codec = [ x |-> x, tag |-> << >>, dec |-> << >> ]
  /\ disk = [ p \in Paths |-> << >> ]
  /\ disk0 = disk
  /\ ScanIdle
  /\ stdin = << >> /\ input = << >> /\ tok = << >> /\ plineno = 1
  /\ patches = << >> /\ perr = NoErr /\ seenPath = { } /\ pidx = 1
  /\ tmp = << >> /\ aerr = NoErr /\ applied = << >> /\ log = << >>
  /\ driver = "" /\ edit = NoEdit /\ expand = NoExpand /\ parses = 0

NextCodec == CodecEncode \/ CodecDecode

SpecCodec == InitCodec /\ [][NextCodec]_vars

(* ------------------------- lineExpand on its own ------------------------ *)
\* lineExpand is called with a span of a buffer
LineExpandCall ==
  /\ pc = "expand"
  /\ expand' = [ expand EXCEPT !.ret = lineExpand(expand.i, expand.j, expand.buf) ]
  /\ pc' = "expanded"
  /\ UNCHANGED << disk, disk0, codec, parses >>
  /\ UNCHANGED scanVars
  /\ UNCHANGED patchVars

\* every buffer and every span 0 <= i <= j <= len(buf) of it
InitExpand ==
  /\ pc = "expand"
  /\ \E b \in ScanFiles :
       \E i \in 0..Len(b) :
         \E j \in i..Len(b) :
           expand = [ buf |-> b, i |-> i, j |-> j, ret |-> << >> ]
  /\ disk = [ p \in Paths |-> << >> ]
  /\ disk0 = disk
  /\ ScanIdle
  /\ stdin = << >> /\ input = << >> /\ tok = << >> /\ plineno = 1
  /\ patches = << >> /\ perr = NoErr /\ seenPath = { } /\ pidx = 1
  /\ tmp = << >> /\ aerr = NoErr /\ applied = << >> /\ log = << >>
  /\ driver = "" /\ edit = NoEdit /\ codec = NoCodec /\ parses = 0

NextExpand == LineExpandCall

SpecExpand == InitExpand /\ [][NextExpand]_vars

(* ======================= what the claims speak of ======================= *)
RECURSIVE LineStartOf(_, _)
\* 0-based offset at which line n (1-indexed) of the text t starts; beyond
\* Len(t) when t has fewer lines
LineStartOf(t, n) ==
  IF n <= 1 THEN 0
  ELSE LET s == LineStartOf(t, n - 1)
       IN  IF s > Len(t) THEN s
           ELSE LET i == IndexByte(Slice(t, s, Len(t)), NL)
                IN  IF i < 0 THEN Len(t) + 1 ELSE s + i + 1

\* whether the text t has a line n
HasLine(t, n) == n >= 1 /\ LineStartOf(t, n) < Len(t)

\* 0-based offset of the newline that ends line n of t, Len(t) when it has none
LineEndOf(t, n) ==
  LET s == LineStartOf(t, n)
      i == IndexByte(Slice(t, s, Len(t)), NL)
  IN  IF i < 0 THEN Len(t) ELSE s + i

\* line n of t, without its newline
LineOf(t, n) == Slice(t, LineStartOf(t, n), LineEndOf(t, n))

\* t with the content of its line n replaced by c and nothing else changed
ReplaceLine(t, n, c) ==
  IF HasLine(t, n)
    THEN Slice(t, 0, LineStartOf(t, n)) \o c \o Slice(t, LineEndOf(t, n), Len(t))
    ELSE t

\* the process has ended
Exited == pc \in { "exit0", "exit1" }

\* patchInput has returned
Parsed == pc \notin { "grep", "grepdone", "panic", "patchInput", "parse", "encode", "decode", "decoded" }

\* what the line l of a patch stream says: whether it has the prefix of
\* patchPrefixRe; whether its content no longer has the checksum it claims;
\* whether it parses (its line number is in range, unless the line is dropped
\* as unchanged before the number is read); its path; the EditedLine it stands for
LineFacts(l) ==
  LET m       == FindSubmatch(l)
      content == Slice(l, Len(m.m0), Len(l))
      changed == ChecksumIEEE(content) # ParseHex32(m.crc)
  IN  IF m = << >>
        THEN [ ok |-> FALSE, changed |-> FALSE, clean |-> FALSE, path |-> << >>, edit |-> << >> ]
        ELSE [ ok |-> TRUE,
               changed |-> changed,
               clean |-> changed => ~DecOutOfRange(m.no),
               path |-> m.path,
               edit |-> IF DecOutOfRange(m.no) THEN << >>
                        ELSE [ n |-> DecVal(m.no), b |-> content, crc |-> ParseHex32(m.crc) ] ]

\* the same for the lines the streams are made of, computed once
FactsKnown == [ l \in StreamLines |-> LineFacts(l) ]

\* what line i of the stream that was read says
InputFacts(i) ==
  IF input[i] \in DOMAIN FactsKnown THEN FactsKnown[input[i]] ELSE LineFacts(input[i])

InputOk(i) == InputFacts(i).ok
InputPath(i) == InputFacts(i).path
InputChanged(i) == InputFacts(i).changed
InputClean(i) == InputFacts(i).clean
InputEdit(i) == InputFacts(i).edit

RECURSIVE SumLens(_)
\* how many lines the patches of q hold together
SumLens(q) == IF q = << >> THEN 0 ELSE Len(Head(q).lines) + SumLens(Tail(q))

(* ------------------------------- C1, C2 -------------------------------- *)
\* C1: round trip with one edit.  When the output of a scan is saved, the content
\* of one record is changed (fingerprint left as printed) and the result is fed
\* to patch mode, the file ends up as the original with exactly that line
\* replaced by the new content; everything else, the final newline or its
\* absence included, is as before.
C1_RoundTripWithEdit ==
  (Exited /\ edit.k > 0) =>
     disk[PathA] = ReplaceLine(disk0[PathA], emitted[edit.k].no, edit.content)

\* C2: round trip without an edit.  The unmodified output of a scan is accepted
\* by the patch parser without error, yields no edited line at all, and the
\* file is left byte for byte as it was.
C2_RoundTripNoOp ==
  (Exited /\ edit.k = 0) => (perr = NoErr /\ patches = << >> /\ disk = disk0)

(* --------------------------------- C3 ---------------------------------- *)
\* C3: staleness detection.  When Apply processes an edit that targets line N
\* and the checksum of the file's current line N differs from the fingerprint
\* the edit claims, Apply fails with BadCRC and does not write the edit.
C3_StaleLineIsBadCRC ==
  (pc = "written" /\ HasLine(disk[patches[pidx].path], patches[pidx].lines[1].n)
     /\ ChecksumIEEE(LineOf(disk[patches[pidx].path], patches[pidx].lines[1].n))
          # patches[pidx].lines[1].crc)
    => aerr.Wrapped = "BadCRC"

(* --------------------------------- C4 ---------------------------------- *)
\* some line of the text t, read with its newline as Check reads it, has the
\* checksum c
SomeLineHasCrc(t, c) ==
  \E n \in 1..Len(t) :
     /\ HasLine(t, n)
     /\ LineEndOf(t, n) < Len(t)
     /\ ChecksumIEEE(Slice(t, LineStartOf(t, n), LineEndOf(t, n) + 1)) = c

C5_WinnerIsLeftmostLongest ==
  won.j >= 0 =>
    /\ ~won.ms[won.j + 1].fail
    /\ \A i \in 1..Len(won.ms) :
          ~won.ms[i].fail =>
             \/ won.ms[won.j + 1].idx[1] < won.ms[i].idx[1]
             \/ /\ won.ms[won.j + 1].idx[1] = won.ms[i].idx[1]
                /\ won.ms[won.j + 1].idx[2] >= won.ms[i].idx[2]

\* an iteration in which an earlier pattern had a shorter match at the same
\* start as the winner, and another cursor was exhausted
C5_Witness ==
  /\ won.j >= 1
  /\ \E i \in 1..won.j :
        /\ ~won.ms[i].fail
        /\ won.ms[i].idx[1] = won.ms[won.j + 1].idx[1]
        /\ won.ms[i].idx[2] < won.ms[won.j + 1].idx[2]

(* --------------------------------- C6 ---------------------------------- *)
\* the stream names a path, then another, then the first again, and every line
\* up to there parses
InputIsABA ==
  \E k \in 1..Len(input) :
     /\ \A i \in 1..k : InputClean(i)
     /\ \E i \in 1..k, j \in 1..k :
           i < j /\ j < k /\ InputPath(i) = InputPath(k) /\ InputPath(j) # InputPath(k)

\* C6: grouping rejection.  A stream whose lines name path A, then path B, then
\* path A again is rejected with DupPathGroup, and no Apply was started on any
\* file: the process dies on the error of patchInput.
C6_GroupingRejected ==
  (Parsed /\ InputIsABA) =>
     /\ perr.Wrapped = "DupPathGroup"
     /\ patches = << >>
     /\ applied = << >>
     /\ disk = disk0
     /\ pc \in { "main", "exit1" }

\* the process died on a stream A, B, A whose first line was a real change
C6_Witness ==
  /\ pc = "exit1"
  /\ InputIsABA
  /\ InputChanged(1)
  /\ perr.Wrapped = "DupPathGroup"

(* --------------------------------- C7 ---------------------------------- *)
\* C7: per-file isolation.  When the process has ended, Apply was invoked on
\* every patch of the list, in order, whether or not an earlier one failed.
C7_EveryGroupApplied ==
  Exited =>
     /\ Len(applied) = Len(patches)
     /\ \A i \in 1..Len(applied) : applied[i].path = patches[i].path

(* --------------------------------- C8 ---------------------------------- *)
\* C8: no-op lines are dropped.  Of a stream that parses, exactly the lines
\* whose content no longer has the claimed checksum become edited lines, each
\* in the patch of its own path with its number, content and claimed checksum;
\* the lines whose content still has it become nothing and raise no error.
C8_OnlyChangedLinesKept ==
  (Parsed /\ perr = NoErr) =>
     /\ \A i \in 1..Len(input) : InputOk(i)
     /\ SumLens(patches) = Cardinality({ i \in 1..Len(input) : InputChanged(i) })
     /\ \A i \in 1..Len(input) :
           InputChanged(i) =>
              \E g \in 1..Len(patches) :
                 /\ patches[g].path = InputPath(i)
                 /\ \E l \in 1..Len(patches[g].lines) : patches[g].lines[l] = InputEdit(i)
     /\ \A g \in 1..Len(patches) : \A l \in 1..Len(patches[g].lines) :
           \E i \in 1..Len(input) :
              /\ InputChanged(i)
              /\ patches[g].path = InputPath(i)
              /\ patches[g].lines[l] = InputEdit(i)

\* a stream with an unchanged line between two changed ones was parsed
C8_Witness ==
  /\ pc = "main"
  /\ perr = NoErr
  /\ Len(input) = 3
  /\ InputChanged(1) /\ ~InputChanged(2) /\ InputChanged(3)

C10_LineNumbersIncrease ==
  \A i \in 1..(Len(emitted) - 1) : emitted[i].no < emitted[i + 1].no

(* --------------------------------- C11 --------------------------------- *)
RECURSIVE CountNL(_)
\* how many newlines the text t holds
CountNL(t) == IF t = << >> THEN 0 ELSE (IF Head(t) = NL THEN 1 ELSE 0) + CountNL(Tail(t))

\* C11: line-number exactness.  Every record a scan prints carries the line
\* number 1 + the number of newlines of the file that precede the line the
\* record was printed for.
C11_LineNumberExact ==
  \A i \in 1..Len(emitted) :
     emitted[i].no = 1 + CountNL(Slice(disk[PathA], 0, emitted[i].at))

(* --------------------------------- C12 --------------------------------- *)
\* C12: fingerprint codec round trip.  For every checksum x, what the patch
\* parser reads from the tag the scan prints for x is x, without error.
C12_CodecRoundTrip ==
  pc = "decoded" => codec.dec = [ err |-> "nil", v |-> codec.x ]

(* --------------------------------- C13 --------------------------------- *)
\* line k of the stream is where the parser must stop: it does not parse, or
\* it opens a group for a path that had a group before
InputOffends(k) ==
  \/ ~InputClean(k)
  \/ \E i \in 1..k, j \in 1..k :
        i < j /\ j < k /\ InputPath(i) = InputPath(k) /\ InputPath(j) # InputPath(k)

\* C13: parse-error location.  The error patchInput returns carries the
\* 1-indexed position, in the whole stream, of the first line the parser
\* cannot accept, in whichever group that line stands.
C13_ErrorLocation ==
  (Parsed /\ perr # NoErr) =>
     /\ perr.LineNo \in 1..Len(input)
     /\ InputOffends(perr.LineNo)
     /\ \A i \in 1..(perr.LineNo - 1) : ~InputOffends(i)

\* the parser stopped at the third line of the stream, the second line of the
\* second group
C13_Witness ==
  /\ pc = "main"
  /\ perr # NoErr
  /\ perr.LineNo = 3
  /\ InputOk(3) /\ ~InputClean(3)
  /\ InputPath(1) # InputPath(2)
  /\ InputPath(2) = InputPath(3)

(* --------------------------------- C14 --------------------------------- *)
\* how many lines the text t has: a last line needs no newline
NumLines(t) == CountNL(t) + (IF t # << >> /\ t[Len(t)] # NL THEN 1 ELSE 0)

\* C14: unexpected end of file.  When the file has fewer lines than the line
\* number of some edit of the group, Apply fails with UnexpectedEOF (or, before
\* it gets there, with BadCRC on an edit of a line the file does have).
C14_ShortFileIsUnexpectedEOF ==
  (pc = "written"
     /\ \E l \in 1..Len(patches[pidx].lines) :
           patches[pidx].lines[l].n > NumLines(disk[patches[pidx].path]))
    => \/ aerr.Wrapped = "UnexpectedEOF"
       \/ /\ aerr.Wrapped = "BadCRC"
          /\ \E l \in 1..Len(patches[pidx].lines) :
                HasLine(disk[patches[pidx].path], patches[pidx].lines[l].n)

(* --------------------------------- C15 --------------------------------- *)
\* C15: applier alignment.  When Apply has verified and written the edits of a
\* group, the first edit, of line n, was verified against line n of the
\* original (its checksum is that of line n), and the n-1 lines before it were
\* copied to the output once and unchanged, so the output begins with them.
C15_ApplierAligned ==
  (pc = "written" /\ aerr = NoErr /\ patches[pidx].lines # << >>) =>
     LET e == patches[pidx].lines[1]
         f == disk[patches[pidx].path]
     IN  /\ HasLine(f, e.n)
         /\ e.crc \in { ChecksumIEEE(LineOf(f, e.n)), ChecksumIEEE(Append(LineOf(f, e.n), NL)) }
         /\ Len(tmp) >= LineStartOf(f, e.n)
         /\ Slice(tmp, 0, LineStartOf(f, e.n)) = Slice(f, 0, LineStartOf(f, e.n))

(* --------------------------------- C16 --------------------------------- *)
\* t with its line n, newline included when it has one, replaced by c and a
\* newline
ReplaceWholeLine(t, n, c) ==
  IF HasLine(t, n)
    THEN Slice(t, 0, LineStartOf(t, n)) \o c \o << NL >>
           \o Slice(t, IF LineEndOf(t, n) < Len(t) THEN LineEndOf(t, n) + 1 ELSE Len(t), Len(t))
    ELSE t

RECURSIVE ReplaceAll(_, _)
\* t with the line of every edit of q replaced by the edit's content and a newline
ReplaceAll(t, q) ==
  IF q = << >> THEN t
  ELSE ReplaceWholeLine(ReplaceAll(t, SubSeq(q, 1, Len(q) - 1)), q[Len(q)].n, q[Len(q)].b)

\* the edits of q name lines of the text t, in strictly ascending order
EditsAscendIn(t, q) ==
  /\ \A l \in 1..Len(q) : q[l].n >= 1
  /\ \A l \in 1..(Len(q) - 1) : q[l].n < q[l + 1].n

\* C16: applier result.  After a successful Apply of a group whose edits name
\* the lines n1 < ... < nk, the output is the original with each line ni replaced
\* by the edit's content and one newline: it has as many lines as the original
\* and every other line is as it was.
C16_ApplierResult ==
  (pc = "written" /\ aerr = NoErr /\ EditsAscendIn(disk[patches[pidx].path], patches[pidx].lines)) =>
     /\ \A l \in 1..Len(patches[pidx].lines) :
           HasLine(disk[patches[pidx].path], patches[pidx].lines[l].n)
     /\ tmp = ReplaceAll(disk[patches[pidx].path], patches[pidx].lines)
     /\ NumLines(tmp) = NumLines(disk[patches[pidx].path])

(* --------------------------------- C17 --------------------------------- *)
\* C17: unmodified lines verify.  When every edit of a group claims the
\* fingerprint a scan prints for its target line as the file has it, the
\* checksum of the line without its newline, Apply does not fail with BadCRC.
C17_UnmodifiedLinesVerify ==
  (pc = "written"
     /\ \A l \in 1..Len(patches[pidx].lines) :
           /\ HasLine(disk[patches[pidx].path], patches[pidx].lines[l].n)
           /\ patches[pidx].lines[l].crc
                = ChecksumIEEE(LineOf(disk[patches[pidx].path], patches[pidx].lines[l].n)))
    => aerr.Wrapped # "BadCRC"

(* --------------------------------- C18 --------------------------------- *)
\* C18: every patch the parser returns has its lines in ascending order of
\* their line numbers, whatever their order in the stream.
C18_GroupsSorted ==
  \A g \in 1..Len(patches) : \A l \in 1..(Len(patches[g].lines) - 1) :
     patches[g].lines[l].n <= patches[g].lines[l + 1].n

\* a stream whose first two lines are changes to one file, the later line
\* first, was parsed into a patch
C18_Witness ==
  /\ pc = "main"
  /\ perr = NoErr
  /\ Len(input) >= 2
  /\ InputChanged(1) /\ InputChanged(2)
  /\ InputPath(1) = InputPath(2)
  /\ InputEdit(1).n > InputEdit(2).n
  /\ Len(patches) >= 1
  /\ Len(patches[1].lines) >= 2
  /\ patches[1].lines[1].n < patches[1].lines[2].n

(* --------------------------------- C19 --------------------------------- *)
\* C19: no patch of the list the parser hands to the applier holds two edited
\* lines with the same line number.
C19_NoDuplicateLineNumber ==
  \A g \in 1..Len(patches) : \A l \in 1..Len(patches[g].lines), k \in 1..Len(patches[g].lines) :
     l # k => patches[g].lines[l].n # patches[g].lines[k].n

(* --------------------------------- C20 --------------------------------- *)
RECURSIVE ChangedEditsOf(_, _)
\* the edited lines that the first k lines of the stream hold for the path p,
\* in the order of the stream
ChangedEditsOf(p, k) ==
  IF k = 0 THEN << >>
  ELSE IF InputChanged(k) /\ InputPath(k) = p
    THEN Append(ChangedEditsOf(p, k - 1), InputEdit(k))
  ELSE ChangedEditsOf(p, k - 1)

\* C20: grouping conserves lines.  Of a stream that parses, every changed line
\* is in exactly one patch, the one of its path: each patch holds the changed
\* lines of its path, all of them and each once (in ascending order), no two
\* patches share a path, and every path with a changed line has its patch.
C20_GroupingConservesLines ==
  (Parsed /\ perr = NoErr) =>
     /\ \A g \in 1..Len(patches) :
           patches[g].lines = SortByN(ChangedEditsOf(patches[g].path, Len(input)))
     /\ \A g \in 1..Len(patches), h \in 1..Len(patches) :
           g # h => patches[g].path # patches[h].path
     /\ \A i \in 1..Len(input) :
           InputChanged(i) => \E g \in 1..Len(patches) : patches[g].path = InputPath(i)

\* a stream of three changed lines, the first for one file and the other two
\* for another, was parsed into two patches of one and two lines
C20_Witness ==
  /\ pc = "main"
  /\ perr = NoErr
  /\ Len(input) = 3
  /\ \A i \in 1..3 : InputChanged(i)
  /\ InputPath(1) # InputPath(2)
  /\ InputPath(2) = InputPath(3)
  /\ Len(patches) = 2
  /\ Len(patches[1].lines) = 1
  /\ Len(patches[2].lines) = 2

(* --------------------------------- C21 --------------------------------- *)
\* the region of whole lines of the last iteration's winning match, as offsets
\* into the file
WonRegion ==
  LET e == lineExpand(won.ms[won.j + 1].idx[1], won.ms[won.j + 1].idx[2], won.buf)
      base == Len(disk[PathA]) - Len(won.buf)
  IN  << base + e[1], base + e[2] >>

RECURSIVE LinesBetween(_, _, _)
\* the lines of the text t that start at the offsets n..y, n being the start of
\* a line: the content of each and the offset at which it starts.  The end of
\* the text just after a newline starts no line.
LinesBetween(t, n, y) ==
  IF n > y \/ (n = Len(t) /\ n > 0 /\ t[n] = NL) THEN << >>
  ELSE LET i == IndexByte(Slice(t, n, Len(t)), NL)
           e == IF i < 0 THEN Len(t) ELSE n + i
       IN  << [ line |-> Slice(t, n, e), at |-> n ] >> \o LinesBetween(t, e + 1, y)

\* the records the last iteration printed: content and offset of each
WonRecords ==
  [ i \in 1..(Len(emitted) - won.nrec) |->
      [ line |-> emitted[won.nrec + i].line, at |-> emitted[won.nrec + i].at ] ]

\* C21: multi-line matches.  When the region of the winning match holds the
\* lines a..b of the file with a < b, the iteration prints exactly one record
\* for each of them, in that order, each with the content of its line.
C21_OneRecordPerCoveredLine ==
  won.j >= 0 =>
    LET covered == LinesBetween(disk[PathA], WonRegion[1], WonRegion[2])
    IN  Len(covered) >= 2 => WonRecords = covered

(* --------------------------------- C22 --------------------------------- *)
\* C22: lineExpand.  For every span 0 <= i <= j <= len(buf), lineExpand returns
\* <<x, y>> where x is the offset just after the nearest newline before i (0
\* when there is none) and y is the offset of the nearest newline at or after j
\* (len(buf) when there is none): the smallest region of whole lines that
\* holds the span.
C22_LineExpandIsLineRegion ==
  pc = "expanded" =>
    LET b == expand.buf
        x == expand.ret[1]
        y == expand.ret[2]
    IN  /\ 0 <= x /\ x <= expand.i
        /\ x = 0 \/ b[x] = NL
        /\ \A o \in x..(expand.i - 1) : b[o + 1] # NL
        /\ expand.j <= y /\ y <= Len(b)
        /\ y = Len(b) \/ b[y + 1] = NL
        /\ \A o \in expand.j..(y - 1) : b[o + 1] # NL

\* lineExpand has returned for a match of two lines that ends just after a
\* newline and has more lines after it
C22_Witness ==
  /\ pc = "expanded"
  /\ expand.i < expand.j
  /\ expand.j < Len(expand.buf)
  /\ expand.buf[expand.j] = NL
  /\ \E o \in expand.i..(expand.j - 2) : expand.buf[o + 1] = NL
  /\ expand.ret[1] > 0

(* --------------------------------- C23 --------------------------------- *)
\* C23: first-line marker.  Of the records printed for a file, the first one
\* carries the first-line marker and every later one the subsequent-line
\* marker.
C23_OneFirstMarker ==
  \A i \in 1..Len(emitted) :
     emitted[i].sep = (IF i = 1 THEN firstSepLeft ELSE crcSepLeft)

(* --------------------------------- C24 --------------------------------- *)
\* whether the cursor m says what a search of the pattern pat over the buffer b
\* returns: the same span, or exhausted exactly when there is no match
Coherent(m, pat, b) ==
  LET f == FindIndex(pat, b)
  IN  IF f = << >> THEN m.fail ELSE ~m.fail /\ m.idx = f

\* C24: winner resynchronisation.  After every iteration of grep's loop that
\* printed the winner's lines and cut them off the buffer, the cursor of the
\* pattern that won says what a search of that pattern from scratch over the
\* new remaining buffer returns.
C24_WinnerResearched ==
  (pc = "grep" /\ won.j >= 0) => Coherent(ms[won.j + 1], pats[won.j + 1], buf)

(* --------------------------------- C25 --------------------------------- *)
\* C25: cursor coherence.  At the start of every iteration of grep's loop each
\* pattern's cursor equals what a fresh search of that pattern over the
\* remaining buffer returns.
C25_CursorsCoherent ==
  pc = "grep" => \A i \in 1..Len(pats) : Coherent(ms[i], pats[i], buf)

(* --------------------------------- C27 --------------------------------- *)
\* C27: exhaustion is absorbing.  A cursor that was exhausted when an iteration
\* of grep's loop began is exhausted after it, whatever seek and the searches
\* of that iteration did, and was not the iteration's winner.
C27_ExhaustionAbsorbing ==
  \A i \in 1..Len(won.ms) :
     won.ms[i].fail => (ms[i].fail /\ won.j # i - 1)

\* an iteration has searched again the pattern of a cursor that was exhausted
\* (its index is the start offset of the printed line), and the search found a
\* match in the new remaining buffer
C27_Witness ==
  /\ pc = "grep"
  /\ won.j >= 0
  /\ \E i \in 1..Len(won.ms) :
        /\ won.ms[i].fail
        /\ i - 1 = lineExpand(won.ms[won.j + 1].idx[1], won.ms[won.j + 1].idx[2], won.buf)[1]
        /\ FindIndex(pats[i], buf) # << >>

(* --------------------------------- C26 --------------------------------- *)
\* C26: scan termination.  For every buffer and every pattern set grep's loop
\* over one file ends: grep returns, or the process stops in a panic.
C26_ScanTerminates == <>(pc \in { "grepdone", "panic" })

(* --------------------------------- C28 --------------------------------- *)
\* every path of the stream being parsed stands in one block of consecutive
\* lines
InputGrouped ==
  \A i \in 1..Len(input), j \in 1..Len(input), k \in 1..Len(input) :
     (i < j /\ j < k /\ InputPath(i) = InputPath(k)) => InputPath(j) = InputPath(i)

\* C28: parse isolation.  Whatever was parsed before in the same process, a
\* parse of a stream in which every path stands in one block does not end with
\* DupPathGroup.
C28_ParseIsolation ==
  (pc = "main" /\ InputGrouped) => perr.Wrapped # "DupPathGroup"

====
